---- MODULE Spec2Model ----
(***************************************************************************)
(* A model of doh-proxy (src/dohproxy.go): main's flag handling, Run and   *)
(* its listener goroutines, and HandleDNSRequest with its upstream         *)
(* failover loop.  One handler goroutine runs per accepted DNS request.    *)
(***************************************************************************)
EXTENDS Integers, Sequences, FiniteSets, TLC

\* Bounds of the model.
MaxUpstreams == 2
MaxRequests == 2

\* ProtocolType constants and http.StatusOK.
TCP == 0
UDP == 1
StatusOK == 200

\* A Go pointer is a sequence of at most one element: <<>> is nil.
Nil == <<>>
Ptr(x) == <<x>>
Deref(p) == p[1]

\* Values the -u flag can be given: two well-formed URLs, the empty string
\* (parses, but the client cannot send to it) and ":" (url.Parse rejects it).
URLS == {"https://a.test/dns-query", "https://b.test/dns-query", "", ":"}

\* Sequences over S of length 0..n.
SeqUpTo(S, n) == UNION {[1..k -> S] : k \in 0..n}

(***************************************************************************)
(* DNS messages and their wire form (github.com/miekg/dns Pack / Unpack).  *)
(* A name is a sequence of labels; on the wire the labels are followed by  *)
(* the empty root label, so a name holding an empty label cannot be packed.*)
(***************************************************************************)
Names == {<<"example", "com">>, <<"bad", "", "name">>}

Queries ==
    {[Id |-> "0x2a", Response |-> FALSE, Rcode |-> "NOERROR",
      Question |-> n, Answer |-> <<>>] : n \in Names}

\* Pack that writes only the first label of the question name.
PackFirstLabel(m) ==
    IF \E k \in DOMAIN m.Question : m.Question[k] = ""
    THEN [err |-> "dns: bad rdata", bytes |-> <<>>]
    ELSE [err |-> "nil",
          bytes |-> <<m.Id, IF m.Response THEN "QR=1" ELSE "QR=0", m.Rcode>>
                    \o SubSeq(m.Question, 1, 1) \o <<"">> \o m.Answer]

Pack(m) ==
    IF \E k \in DOMAIN m.Question : m.Question[k] = ""
    THEN [err |-> "dns: bad rdata", bytes |-> <<>>]
    ELSE [err |-> "nil",
          bytes |-> <<m.Id, IF m.Response THEN "QR=1" ELSE "QR=0", m.Rcode>>
                    \o m.Question \o <<"">> \o m.Answer]

Unpack(b) ==
    LET bad == [err |-> "dns: overflow unpacking", msg |-> Nil]
    IN  IF Len(b) < 4 \/ b[2] \notin {"QR=0", "QR=1"}
        THEN bad
        ELSE LET rest == SubSeq(b, 4, Len(b))
                 ends == {k \in DOMAIN rest : rest[k] = ""}
             IN  IF ends = {}
                 THEN bad
                 ELSE LET e == CHOOSE k \in ends : \A j \in ends : k <= j
                      IN  [err |-> "nil",
                           msg |-> Ptr([Id |-> b[1],
                                        Response |-> (b[2] = "QR=1"),
                                        Rcode |-> b[3],
                                        Question |-> SubSeq(rest, 1, e - 1),
                                        Answer |-> SubSeq(rest, e + 1, Len(rest))])]

\* dns.HandleFailed(w, r): the SERVFAIL reply to r.
FailedMsg(r) ==
    [Id |-> r.Id, Response |-> TRUE, Rcode |-> "SERVFAIL",
     Question |-> r.Question, Answer |-> <<>>]

(***************************************************************************)
(* What one p.client.Do(req) can return.  A DoH upstream answers the query *)
(* bytes it received; the body is a packed answer, or bytes that are no    *)
(* DNS message, or it fails while being read.                              *)
(***************************************************************************)
AnswerBody(dnsQuery) ==
    LET q == Deref(Unpack(dnsQuery).msg)
    IN  Pack([Id |-> q.Id, Response |-> TRUE, Rcode |-> "NOERROR",
              Question |-> q.Question, Answer |-> <<"192.0.2.1">>]).bytes

Resp(status, body, readErr, closed) ==
    Ptr([StatusCode |-> status, Body |-> body, readErr |-> readErr, closed |-> closed])

DoOutcomes(url, dnsQuery) ==
    IF url = ""
    THEN {[err |-> "unsupported protocol scheme", response |-> Nil]}
    ELSE {[err |-> "timeout", response |-> Nil],
          [err |-> "connection refused", response |-> Nil],
          [err |-> "stopped after 10 redirects",
           response |-> Resp(302, <<>>, FALSE, TRUE)],
          [err |-> "nil", response |-> Resp(500, <<>>, FALSE, FALSE)],
          [err |-> "nil", response |-> Resp(StatusOK, AnswerBody(dnsQuery), FALSE, FALSE)],
          [err |-> "nil", response |-> Resp(StatusOK, SubSeq(AnswerBody(dnsQuery), 1, 2), FALSE, FALSE)],
          [err |-> "nil", response |-> Resp(StatusOK, AnswerBody(dnsQuery), TRUE, FALSE)]}

\* http.NewRequest fails (returns a nil request) when the URL does not parse.
NewRequestFails(url) == url = ":"

VARIABLES
    flags,        \* main: tcpFlag, udpFlag, logFlag after flag.Parse()
    upstreamURLs, \* main: the -u values, in the order given
    mainpc,       \* main goroutine: "parsed", "Run", "select", "exited"
    proxy,        \* *DoHProxy: Nil until NewDoHProxy has run
    runIdx,       \* Run: how many entries of p.protocols the loop has handled
    servers,      \* the listener goroutines Run has started, in order
    handlers,     \* one HandleDNSRequest invocation per accepted request
    running,      \* the process is alive
    exit          \* how the process ended: status and cause

vars == <<flags, upstreamURLs, mainpc, proxy, runIdx, servers, handlers, running, exit>>

Init ==
    /\ flags \in [tcpFlag : BOOLEAN, udpFlag : BOOLEAN, logFlag : BOOLEAN]
    /\ upstreamURLs \in SeqUpTo(URLS, MaxUpstreams)
    /\ mainpc = "parsed"
    /\ proxy = Nil
    /\ runIdx = 0
    /\ servers = <<>>
    /\ handlers = <<>>
    /\ running = TRUE
    /\ exit = [status |-> 0, cause |-> "none"]

(***************************************************************************)
(* main and NewDoHProxy.                                                   *)
(***************************************************************************)
\* Protocols without the default to both.
ProtocolsNoDefault(tcpFlag, udpFlag) ==
    (IF tcpFlag THEN <<TCP>> ELSE <<>>) \o (IF udpFlag THEN <<UDP>> ELSE <<>>)

Protocols(tcpFlag, udpFlag) ==
    IF ~tcpFlag /\ ~udpFlag
    THEN <<TCP, UDP>>
    ELSE (IF tcpFlag THEN <<TCP>> ELSE <<>>) \o (IF udpFlag THEN <<UDP>> ELSE <<>>)

NewDoHProxy(listenAddress, port, urls, protocols, logRequests) ==
    [listenAddress |-> listenAddress,
     port |-> port,
     upstreamURLs |-> urls,
     client |-> [Timeout |-> "5s", Transport |-> "http2"],
     protocols |-> protocols,
     logRequests |-> logRequests]

p == Deref(proxy)

\* main without the check for an empty upstream list.
MainNoCheck ==
    /\ running
    /\ mainpc = "parsed"
    /\ proxy' = Ptr(NewDoHProxy("127.0.0.1", "53", upstreamURLs,
                                Protocols(flags.tcpFlag, flags.udpFlag),
                                flags.logFlag))
    /\ mainpc' = "Run"
    /\ UNCHANGED <<flags, upstreamURLs, runIdx, servers, handlers, running, exit>>

Main ==
    /\ running
    /\ mainpc = "parsed"
    /\ IF Len(upstreamURLs) = 0
       THEN /\ mainpc' = "exited"
            /\ running' = FALSE
            /\ exit' = [status |-> 1, cause |-> "no upstream"]
            /\ proxy' = proxy
       ELSE /\ proxy' = Ptr(NewDoHProxy("127.0.0.1", "53", upstreamURLs,
                                        Protocols(flags.tcpFlag, flags.udpFlag),
                                        flags.logFlag))
            /\ mainpc' = "Run"
            /\ UNCHANGED <<running, exit>>
    /\ UNCHANGED <<flags, upstreamURLs, runIdx, servers, handlers>>

(***************************************************************************)
(* Run: one goroutine per entry of p.protocols, then select {}.            *)
(***************************************************************************)
RunSpawn ==
    /\ running
    /\ mainpc = "Run"
    /\ IF runIdx < Len(p.protocols)
       THEN LET proto == p.protocols[runIdx + 1]
            IN  /\ runIdx' = runIdx + 1
                /\ servers' = IF proto = TCP
                              THEN Append(servers, [Net |-> "tcp", state |-> "starting"])
                              ELSE IF proto = UDP
                              THEN Append(servers, [Net |-> "udp", state |-> "starting"])
                              ELSE servers
                /\ mainpc' = mainpc
       ELSE /\ mainpc' = "select"
            /\ UNCHANGED <<runIdx, servers>>
    /\ UNCHANGED <<flags, upstreamURLs, proxy, handlers, running, exit>>

\* server.ListenAndServe() has bound its socket and serves.
ListenOK(k) ==
    /\ running
    /\ servers[k].state = "starting"
    /\ servers' = [servers EXCEPT ![k].state = "serving"]
    /\ UNCHANGED <<flags, upstreamURLs, mainpc, proxy, runIdx, handlers, running, exit>>

\* log.Fatalf: the line is printed and the process exits with status 1,
\* ending every goroutine.
PrintfOnly == [running |-> TRUE, exit |-> [status |-> 0, cause |-> "none"]]

Fatalf == [running |-> FALSE, exit |-> [status |-> 1, cause |-> "listen"]]

\* server.ListenAndServe() returns an error: the bind failed, or serving did.
ListenAndServeErr(k) ==
    /\ running
    /\ servers[k].state \in {"starting", "serving"}
    /\ servers' = [servers EXCEPT ![k].state = "failed"]
    /\ running' = Fatalf.running
    /\ exit' = Fatalf.exit
    /\ handlers' = IF Fatalf.running THEN handlers ELSE <<>>
    /\ UNCHANGED <<flags, upstreamURLs, mainpc, proxy, runIdx>>

(***************************************************************************)
(* HandleDNSRequest.  A handler is the goroutine's locals (r, dnsQuery,    *)
(* response, err, currentUpstream, the range index idx), what it has       *)
(* written to its ResponseWriter w and to the log, and the history of its  *)
(* upstream calls: calls (indices, when client.Do is invoked), sent (the   *)
(* request body of each call), inflight (invoked, not yet returned),       *)
(* results (what each returned) and open (response bodies obtained and not *)
(* closed).                                                                *)
(***************************************************************************)
LogLine(fmt, arg) == [fmt |-> fmt, arg |-> arg]

\* Accepted without the test of the status.
AcceptedAnyStatus(err, response) ==
    err = "nil"

Accepted(err, response) ==
    err = "nil" /\ Deref(response).StatusCode = StatusOK

\* The head of the range loop up to the call of p.client.Do(req).
LoopTop(q, h) ==
    IF h.idx >= Len(q.upstreamURLs)
    THEN [h EXCEPT !.pc = "afterloop"]
    ELSE LET i == h.idx + 1
         IN  IF NewRequestFails(q.upstreamURLs[i])
             THEN [h EXCEPT !.idx = i, !.pc = "panic"]
             ELSE [h EXCEPT !.idx = i, !.pc = "Do",
                            !.calls = Append(@, i),
                            !.sent = Append(@, h.dnsQuery),
                            !.inflight = @ \cup {i}]

\* HandleDNSRequest without the return after a pack failure.
HandleDNSRequestNoReturn(q, net, r) ==
    LET packed == Pack(r)
        h == [net |-> net, r |-> r, pc |-> "entry", dnsQuery |-> packed.bytes,
              idx |-> 0, response |-> Nil, err |-> packed.err,
              currentUpstream |-> "", w |-> <<>>, log |-> <<>>,
              calls |-> <<>>, sent |-> <<>>, inflight |-> {}, results |-> <<>>,
              open |-> {}]
    IN  IF packed.err # "nil"
        THEN LoopTop(q, [h EXCEPT !.log = Append(@, LogLine("Failed to pack DNS request: %v",
                                                            packed.err))])
        ELSE LoopTop(q, h)

\* Entry of the handler: pack the query, then enter the loop.
HandleDNSRequest(q, net, r) ==
    LET packed == Pack(r)
        h == [net |-> net, r |-> r, pc |-> "entry", dnsQuery |-> packed.bytes,
              idx |-> 0, response |-> Nil, err |-> packed.err,
              currentUpstream |-> "", w |-> <<>>, log |-> <<>>,
              calls |-> <<>>, sent |-> <<>>, inflight |-> {}, results |-> <<>>,
              open |-> {}]
    IN  IF packed.err # "nil"
        THEN [h EXCEPT !.log = Append(@, LogLine("Failed to pack DNS request: %v", packed.err)),
                       !.pc = "returned"]
        ELSE LoopTop(q, h)

\* p.client.Do(req) has returned out: accept and break, or go on.
Received(h, out) ==
    [h EXCEPT !.response = out.response,
              !.err = out.err,
              !.inflight = @ \ {h.idx},
              !.results = Append(@, out),
              !.open = IF out.response # Nil /\ ~Deref(out.response).closed
                       THEN @ \cup {h.idx} ELSE @]

\* DoReturn without the break: the loop goes on after an accepted response.
DoReturnNoBreak(q, h, out) ==
    IF Accepted(out.err, out.response)
    THEN LoopTop(q, [Received(h, out) EXCEPT !.currentUpstream = q.upstreamURLs[h.idx]])
    ELSE LoopTop(q, Received(h, out))

\* DoReturn that tries a failed upstream a second time before moving on.
DoReturnRetry(q, h, out) ==
    IF Accepted(out.err, out.response)
    THEN [Received(h, out) EXCEPT !.currentUpstream = q.upstreamURLs[h.idx],
                                  !.pc = "afterloop"]
    ELSE IF Cardinality({c \in DOMAIN h.calls : h.calls[c] = h.idx}) < 2
    THEN LoopTop(q, [Received(h, out) EXCEPT !.idx = @ - 1])
    ELSE LoopTop(q, Received(h, out))

\* DoReturn that logs every upstream that failed.
DoReturnLogsFailure(q, h, out) ==
    IF Accepted(out.err, out.response)
    THEN [Received(h, out) EXCEPT !.currentUpstream = q.upstreamURLs[h.idx],
                                  !.pc = "afterloop"]
    ELSE LoopTop(q, [Received(h, out) EXCEPT
                       !.log = Append(@, LogLine("Upstream failed: ", q.upstreamURLs[h.idx]))])

\* DoReturn that does not record the accepted upstream.
DoReturnKeepsName(q, h, out) ==
    IF Accepted(out.err, out.response)
    THEN [Received(h, out) EXCEPT !.pc = "afterloop"]
    ELSE LoopTop(q, Received(h, out))

DoReturn(q, h, out) ==
    IF Accepted(out.err, out.response)
    THEN [Received(h, out) EXCEPT !.currentUpstream = q.upstreamURLs[h.idx],
                                  !.pc = "afterloop"]
    ELSE LoopTop(q, Received(h, out))

\* AfterLoop without the return after a failed read of the body.
AfterLoopNoReturn(q, h) ==
    IF h.currentUpstream = ""
    THEN [h EXCEPT !.log = IF q.logRequests
                           THEN Append(@, LogLine("Failed to query any upstream", ""))
                           ELSE @,
                   !.pc = "returned"]
    ELSE LET resp == Deref(h.response)
             closed == [h EXCEPT !.open = @ \ {h.idx}, !.pc = "returned"]
             u == Unpack(resp.Body)
             read == IF resp.readErr
                     THEN [closed EXCEPT
                             !.err = "unexpected EOF",
                             !.log = Append(@, LogLine("Failed to read response from upstream: %v",
                                                       "unexpected EOF")),
                             !.w = Append(@, FailedMsg(h.r))]
                     ELSE closed
         IN  IF u.err # "nil"
             THEN [read EXCEPT
                     !.log = Append(@, LogLine("Failed to unpack DNS response: %v", u.err)),
                     !.w = Append(@, FailedMsg(h.r))]
             ELSE [read EXCEPT
                     !.log = IF q.logRequests
                             THEN Append(@, LogLine("Successfully proxied request through ",
                                                    h.currentUpstream))
                             ELSE @,
                     !.w = Append(@, Deref(u.msg))]

\* After the loop: the two failure exits, then read, unpack, log and write.
AfterLoop(q, h) ==
    IF h.currentUpstream = ""
    THEN [h EXCEPT !.log = IF q.logRequests
                           THEN Append(@, LogLine("Failed to query any upstream", ""))
                           ELSE @,
                   !.pc = "returned"]
    ELSE IF h.response = Nil
    THEN [h EXCEPT !.log = Append(@, LogLine("All upstream DoH servers failed", "")),
                   !.w = Append(@, FailedMsg(h.r)),
                   !.pc = "returned"]
    ELSE LET resp == Deref(h.response)
             closed == [h EXCEPT !.open = @ \ {h.idx}, !.pc = "returned"]
             u == Unpack(resp.Body)
         IN  IF resp.readErr
             THEN [closed EXCEPT
                     !.err = "unexpected EOF",
                     !.log = Append(@, LogLine("Failed to read response from upstream: %v",
                                               "unexpected EOF")),
                     !.w = Append(@, FailedMsg(h.r))]
             ELSE IF u.err # "nil"
             THEN [closed EXCEPT
                     !.log = Append(@, LogLine("Failed to unpack DNS response: %v", u.err)),
                     !.w = Append(@, FailedMsg(h.r))]
             ELSE [closed EXCEPT
                     !.log = IF q.logRequests
                             THEN Append(@, LogLine("Successfully proxied request through ",
                                                    h.currentUpstream))
                             ELSE @,
                     !.w = Append(@, Deref(u.msg))]

\* A panic in a handler goroutine is not recovered: the process dies, and
\* every goroutine with it.
Panicked(hs) == \E n \in DOMAIN hs : hs[n].pc = "panic"

Crash(hs) ==
    IF Panicked(hs)
    THEN /\ running' = FALSE
         /\ exit' = [status |-> 2, cause |-> "panic"]
         /\ handlers' = <<>>
    ELSE /\ handlers' = hs
         /\ UNCHANGED <<running, exit>>

\* Accept that runs the handler in the listener loop: no request is accepted
\* while an upstream call is outstanding.
AcceptSerial(k, r) ==
    /\ running
    /\ servers[k].state = "serving"
    /\ Len(handlers) < MaxRequests
    /\ \A n \in DOMAIN handlers : handlers[n].pc = "returned"
    /\ Crash(Append(handlers, HandleDNSRequest(p, servers[k].Net, r)))
    /\ UNCHANGED <<flags, upstreamURLs, mainpc, proxy, runIdx, servers>>

\* A serving listener accepts a request and starts its handler goroutine.
Accept(k, r) ==
    /\ running
    /\ servers[k].state = "serving"
    /\ Len(handlers) < MaxRequests
    /\ Crash(Append(handlers, HandleDNSRequest(p, servers[k].Net, r)))
    /\ UNCHANGED <<flags, upstreamURLs, mainpc, proxy, runIdx, servers>>

\* ClientDoReturns that moves the upstream it just tried to the end of the
\* proxy's list when the call failed.
ClientDoReturnsDemotes(n) ==
    /\ running
    /\ handlers[n].pc = "Do"
    /\ \E out \in DoOutcomes(p.upstreamURLs[handlers[n].idx],
                              handlers[n].sent[Len(handlers[n].sent)]) :
          /\ Crash([handlers EXCEPT ![n] = DoReturn(p, @, out)])
          /\ proxy' = IF Accepted(out.err, out.response)
                      THEN proxy
                      ELSE Ptr([p EXCEPT !.upstreamURLs =
                                  SubSeq(@, 1, handlers[n].idx - 1)
                                  \o SubSeq(@, handlers[n].idx + 1, Len(@))
                                  \o <<@[handlers[n].idx]>>])
    /\ UNCHANGED <<flags, upstreamURLs, mainpc, runIdx, servers>>

\* The upstream call of handler n returns.
ClientDoReturns(n) ==
    /\ running
    /\ handlers[n].pc = "Do"
    /\ \E out \in DoOutcomes(p.upstreamURLs[handlers[n].idx],
                              handlers[n].sent[Len(handlers[n].sent)]) :
          Crash([handlers EXCEPT ![n] = DoReturn(p, @, out)])
    /\ UNCHANGED <<flags, upstreamURLs, mainpc, proxy, runIdx, servers>>

\* Handler n runs from the end of the loop to its return.
Finish(n) ==
    /\ running
    /\ handlers[n].pc = "afterloop"
    /\ handlers' = [handlers EXCEPT ![n] = AfterLoop(p, @)]
    /\ UNCHANGED <<flags, upstreamURLs, mainpc, proxy, runIdx, servers, running, exit>>

Next ==
    \/ Main
    \/ RunSpawn
    \/ \E k \in DOMAIN servers : ListenOK(k)
    \/ \E k \in DOMAIN servers : ListenAndServeErr(k)
    \/ \E k \in DOMAIN servers : \E r \in Queries : Accept(k, r)
    \/ \E n \in DOMAIN handlers : ClientDoReturns(n)
    \/ \E n \in DOMAIN handlers : Finish(n)

Spec == Init /\ [][Next]_vars

(***************************************************************************)
(* The same program started as `-udp -u ... [-u ...]` with well-formed     *)
(* URLs, its clients sending queries with several ids and names.           *)
(***************************************************************************)
RoundTripQueries ==
    {[Id |-> i, Response |-> FALSE, Rcode |-> "NOERROR", Question |-> n, Answer |-> <<>>] :
        i \in {"0x2a", "0x07"}, n \in {<<"example", "com">>, <<"test">>}}

InitRoundTrip ==
    /\ flags = [tcpFlag |-> FALSE, udpFlag |-> TRUE, logFlag |-> FALSE]
    /\ upstreamURLs \in SeqUpTo({"https://a.test/dns-query", "https://b.test/dns-query"},
                                MaxUpstreams) \ {<<>>}
    /\ mainpc = "parsed"
    /\ proxy = Nil
    /\ runIdx = 0
    /\ servers = <<>>
    /\ handlers = <<>>
    /\ running = TRUE
    /\ exit = [status |-> 0, cause |-> "none"]

NextRoundTrip ==
    \/ Main
    \/ RunSpawn
    \/ \E k \in DOMAIN servers : ListenOK(k)
    \/ \E k \in DOMAIN servers : ListenAndServeErr(k)
    \/ \E k \in DOMAIN servers : \E r \in RoundTripQueries : Accept(k, r)
    \/ \E n \in DOMAIN handlers : ClientDoReturns(n)
    \/ \E n \in DOMAIN handlers : Finish(n)

SpecRoundTrip == InitRoundTrip /\ [][NextRoundTrip]_vars

(***************************************************************************)
(* Properties.                                                             *)
(***************************************************************************)
Handlers == {handlers[n] : n \in DOMAIN handlers}

\* An upstream attempt returned no error and HTTP status 200.
Is200(out) ==
    out.err = "nil" /\ out.response # Nil /\ Deref(out.response).StatusCode = 200

\* Every upstream of the list was attempted and none returned 200.
AllFailed(h) ==
    /\ h.results # <<>>
    /\ Len(h.results) = Len(p.upstreamURLs)
    /\ \A j \in DOMAIN h.results : ~Is200(h.results[j])

\* The last attempt returned 200 and its body was read.
BodyRead(h) ==
    /\ h.results # <<>>
    /\ Is200(h.results[Len(h.results)])
    /\ ~Deref(h.results[Len(h.results)].response).readErr

LastBody(h) == Deref(h.results[Len(h.results)].response).Body

\* C1: once an upstream attempt has returned 200 with no error, no upstream
\* later in the list is contacted for that request; if the first upstream
\* returns 200 the request makes exactly one upstream call.
C1_StopAtFirst200 ==
    \A h \in Handlers : \A j \in DOMAIN h.results :
        Is200(h.results[j]) =>
            /\ Len(h.calls) = j
            /\ h.inflight = {}
            /\ \A c \in DOMAIN h.calls : h.calls[c] <= h.calls[j]

C1_Witness ==
    \E h \in Handlers :
        /\ h.pc = "returned"
        /\ Len(p.upstreamURLs) = 2
        /\ ~NewRequestFails(p.upstreamURLs[2])
        /\ Len(h.results) = 1
        /\ Is200(h.results[1])
        /\ h.calls = <<1>>

\* C2: when upstream k is the first to return 200, upstreams 1..k-1 were
\* each attempted exactly once and in configured order; attempts are strictly
\* sequential: a call starts only after the previous one has returned, so
\* at most one upstream call of a request is in flight.
C2_InOrderSequential ==
    \A h \in Handlers :
        /\ Cardinality(h.inflight) <= 1
        /\ Len(h.calls) = Len(h.results) + Cardinality(h.inflight)
        /\ \A k \in DOMAIN h.results :
             (Is200(h.results[k]) /\ \A j \in 1..(k - 1) : ~Is200(h.results[j])) =>
                /\ \A i \in 1..k : h.calls[i] = i
                /\ \A u \in 1..(k - 1) :
                     Cardinality({c \in DOMAIN h.calls : h.calls[c] = u}) = 1

C2_Witness ==
    \E h \in Handlers :
        /\ Len(h.results) = 2
        /\ ~Is200(h.results[1])
        /\ Is200(h.results[2])
        /\ h.calls = <<1, 2>>

\* C3 (as claimed): when every upstream attempt of a request fails, the
\* SERVFAIL reply is written to the client.
C3_AllFailedWritesFailure ==
    \A h \in Handlers :
        (h.pc = "returned" /\ AllFailed(h)) => h.w = <<FailedMsg(h.r)>>

\* C4 (as claimed): the handler never returns without having written a
\* message, the upstream's answer or a failure answer, to its client.
C4_ReturnedHasReply ==
    \A h \in Handlers : h.pc = "returned" => Len(h.w) >= 1

\* C5 (as claimed): a request whose accepted upstream sent a body that does
\* not unpack ends, for its client, like a request for the same query whose
\* upstreams all failed.
C5_MalformedLikeAllFailed ==
    \A h1 \in Handlers : \A h2 \in Handlers :
        (/\ h1.pc = "returned" /\ h2.pc = "returned"
         /\ h1.r = h2.r
         /\ BodyRead(h1) /\ Unpack(LastBody(h1)).err # "nil"
         /\ AllFailed(h2))
        => h1.w = h2.w

\* C6 (as claimed): no failure of an upstream attempt terminates the
\* process: it ends only for a missing upstream configuration or a listener
\* failure.
C6_OnlyConfigAndBindFatal ==
    ~running => exit.cause \in {"no upstream", "listen"}

\* C7 (as claimed): with logRequests false the handler logs nothing.
C7_NoLogWhenDisabled ==
    (proxy # Nil /\ ~p.logRequests) => \A h \in Handlers : h.log = <<>>

\* C8: with logRequests true a handler logs nothing before it returns and has
\* logged exactly one line when it returns: the success line naming the
\* upstream whose answer was written to the client, or one failure line.
FailureFmts ==
    {"Failed to pack DNS request: %v", "Failed to query any upstream",
     "All upstream DoH servers failed", "Failed to read response from upstream: %v",
     "Failed to unpack DNS response: %v"}

C8_OneLogLine ==
    (proxy # Nil /\ p.logRequests) =>
        \A h \in Handlers :
            IF h.pc # "returned"
            THEN h.log = <<>>
            ELSE /\ Len(h.log) = 1
                 /\ IF BodyRead(h) /\ Unpack(LastBody(h)).err = "nil"
                    THEN /\ h.log[1] = [fmt |-> "Successfully proxied request through ",
                                        arg |-> p.upstreamURLs[Len(h.results)]]
                         /\ h.w = <<Deref(Unpack(LastBody(h)).msg)>>
                    ELSE h.log[1].fmt \in FailureFmts

C8_Witness ==
    \E h \in Handlers :
        /\ p.logRequests
        /\ h.net = "udp"
        /\ p.upstreamURLs = <<"https://a.test/dns-query", "https://b.test/dns-query">>
        /\ Len(h.results) = 2
        /\ h.results[1].err = "timeout"
        /\ h.w = <<[Id |-> "0x2a", Response |-> TRUE, Rcode |-> "NOERROR",
                    Question |-> <<"example", "com">>, Answer |-> <<"192.0.2.1">>]>>
        /\ h.log = <<[fmt |-> "Successfully proxied request through ",
                      arg |-> "https://b.test/dns-query"]>>

\* C9: the listener loops Run starts are those of the protocol set the flags
\* enable, one per protocol: both when neither -tcp nor -udp is given, and
\* only the flagged one when a single flag is given.
EnabledNets ==
    IF ~flags.tcpFlag /\ ~flags.udpFlag
    THEN {"tcp", "udp"}
    ELSE {n \in {"tcp"} : flags.tcpFlag} \cup {n \in {"udp"} : flags.udpFlag}

C9_LoopsMatchFlags ==
    /\ \A k \in DOMAIN servers : servers[k].Net \in EnabledNets
    /\ \A j \in DOMAIN servers : \A k \in DOMAIN servers :
         servers[j].Net = servers[k].Net => j = k
    /\ mainpc = "select" =>
         /\ {servers[k].Net : k \in DOMAIN servers} = EnabledNets
         /\ servers # <<>>

C9_Witness ==
    /\ mainpc = "select"
    /\ flags.udpFlag /\ ~flags.tcpFlag
    /\ Len(servers) = 1
    /\ servers[1].Net = "udp"

C9_WitnessDefault ==
    /\ mainpc = "select"
    /\ ~flags.udpFlag /\ ~flags.tcpFlag
    /\ Len(servers) = 2

\* C10: a listener whose ListenAndServe returned an error has ended the
\* process: no state has a failed listener and a running process.
C10_ListenErrorIsFatal ==
    \A k \in DOMAIN servers :
        servers[k].state = "failed" => (~running /\ exit.status # 0)

C10_Witness ==
    \E j \in DOMAIN servers : \E k \in DOMAIN servers :
        /\ servers[j].state = "failed"
        /\ servers[k].state = "serving"
        /\ ~running

\* C11: with no upstream URL the process exits with a non-zero status and
\* no listener is ever started; whenever a listener or a handler exists,
\* the proxy's upstream list is non-empty.
C11_UpstreamsNonEmpty ==
    /\ Len(upstreamURLs) = 0 =>
         /\ servers = <<>> /\ handlers = <<>> /\ proxy = Nil
         /\ mainpc \in {"parsed", "exited"}
         /\ mainpc = "exited" => (~running /\ exit.status # 0)
    /\ (servers # <<>> \/ handlers # <<>>) =>
         (proxy # Nil /\ Len(p.upstreamURLs) >= 1)

C11_Witness ==
    /\ Len(upstreamURLs) = 0
    /\ mainpc = "exited"
    /\ exit = [status |-> 1, cause |-> "no upstream"]
    /\ servers = <<>>

C13_RoundTrip ==
    \A h \in Handlers :
        /\ \A c \in DOMAIN h.sent : h.sent[c] = h.sent[1]
        /\ (h.pc = "returned" /\ BodyRead(h) /\ Unpack(LastBody(h)).err = "nil") =>
              /\ Len(h.w) = 1
              /\ h.w[1].Response
              /\ h.w[1].Id = h.r.Id
              /\ h.w[1].Question = h.r.Question
              /\ h.w[1].Answer = <<"192.0.2.1">>

C13_Witness ==
    \E h \in Handlers :
        /\ h.pc = "returned"
        /\ h.r.Id = "0x07" /\ h.r.Question = <<"test">>
        /\ Len(h.sent) = 2
        /\ h.w = <<[Id |-> "0x07", Response |-> TRUE, Rcode |-> "NOERROR",
                    Question |-> <<"test">>, Answer |-> <<"192.0.2.1">>]>>

\* C14: when packing the inbound query fails the handler returns at once
\* and makes no upstream call.
CannotPack(r) == \E k \in DOMAIN r.Question : r.Question[k] = ""

C14_PackFailureNoCalls ==
    \A h \in Handlers :
        CannotPack(h.r) =>
            /\ h.pc = "returned"
            /\ h.calls = <<>> /\ h.sent = <<>> /\ h.results = <<>>

C14_Witness ==
    \E h \in Handlers :
        /\ CannotPack(h.r)
        /\ h.pc = "returned"
        /\ h.calls = <<>>
        /\ Len(p.upstreamURLs) = 2

\* C15: no upstream is attempted twice and a request makes at most as many
\* attempts as there are upstreams, in one pass of increasing index; a
\* handler that has not returned always has its next step enabled, and each
\* step of a handler lowers its rank, so it returns after at most
\* Len(upstreamURLs) + 1 steps when every upstream call returns.
Rank(h) ==
    IF h.pc = "returned" THEN 0
    ELSE IF h.pc = "afterloop" THEN 1
    ELSE 2 + Len(p.upstreamURLs) - h.idx

C15_LinearPass ==
    \A n \in DOMAIN handlers :
        LET h == handlers[n]
        IN  /\ Len(h.calls) <= Len(p.upstreamURLs)
            /\ \A i \in DOMAIN h.calls : h.calls[i] \in 1..Len(p.upstreamURLs)
            /\ \A i \in DOMAIN h.calls : \A j \in DOMAIN h.calls :
                 i < j => h.calls[i] < h.calls[j]
            /\ h.pc \in {"Do", "afterloop", "returned"}
            /\ h.pc = "Do" => ENABLED ClientDoReturns(n)
            /\ h.pc = "afterloop" => ENABLED Finish(n)

C15_RankDecreases ==
    \A n \in DOMAIN handlers :
        (n \in DOMAIN handlers' /\ handlers'[n] # handlers[n]) =>
            Rank(handlers'[n]) < Rank(handlers[n])

C15_SinglePassTerminates == [](C15_LinearPass) /\ [][C15_RankDecreases]_vars

C15_Witness ==
    \E h \in Handlers :
        /\ h.pc = "returned"
        /\ Len(p.upstreamURLs) = 2
        /\ h.calls = <<1, 2>>
        /\ Len(h.results) = 2

\* C16: the loop stops at an attempt exactly when it returned no error and
\* status 200; an upstream answer written to the client is the unpacked
\* body of the first such attempt, and currentUpstream, which the success
\* line names, is the upstream of that attempt.
FirstAccepted(h) ==
    CHOOSE k \in DOMAIN h.results :
        Is200(h.results[k]) /\ \A j \in 1..(k - 1) : ~Is200(h.results[j])

C16_ServesFirstAccepted ==
    \A h \in Handlers :
        /\ \A j \in DOMAIN h.results :
             LET stopped == j = Len(h.results) /\ h.pc # "Do"
             IN  /\ Is200(h.results[j]) => stopped
                 /\ (stopped /\ ~Is200(h.results[j])) =>
                       (j = Len(p.upstreamURLs) /\ h.currentUpstream = "")
        /\ h.currentUpstream # "" <=> \E j \in DOMAIN h.results : Is200(h.results[j])
        /\ (h.w # <<>> /\ h.w[1] # FailedMsg(h.r)) =>
              /\ \E j \in DOMAIN h.results : Is200(h.results[j])
              /\ h.w = <<Deref(Unpack(Deref(h.results[FirstAccepted(h)].response).Body).msg)>>
              /\ h.currentUpstream = p.upstreamURLs[h.calls[FirstAccepted(h)]]
              /\ p.logRequests =>
                   h.log = <<[fmt |-> "Successfully proxied request through ",
                              arg |-> p.upstreamURLs[h.calls[FirstAccepted(h)]]]>>

C16_Witness ==
    \E h \in Handlers :
        /\ h.pc = "returned"
        /\ Len(h.results) = 2
        /\ h.results[1].err = "nil"
        /\ Deref(h.results[1].response).StatusCode = 500
        /\ Is200(h.results[2])
        /\ Len(h.w) = 1
        /\ h.w[1].Answer = <<"192.0.2.1">>
        /\ h.currentUpstream = p.upstreamURLs[2]
        /\ p.upstreamURLs[1] # p.upstreamURLs[2]

\* C17: no step changes the proxy's fields once it is constructed, nor the
\* flags; a step of one handler leaves every other handler as it was; and
\* two requests with the same query and the same upstream results end with
\* the same reply and the same log lines.
C17_ConfigUnchanged ==
    /\ flags' = flags
    /\ upstreamURLs' = upstreamURLs
    /\ proxy # Nil => proxy' = proxy
    /\ \A n \in DOMAIN handlers :
         \/ handlers' = <<>>
         \/ /\ n \in DOMAIN handlers'
            /\ handlers'[n] # handlers[n] =>
                 \A m \in DOMAIN handlers \ {n} : handlers'[m] = handlers[m]

C17_OwnInputsOnly ==
    /\ proxy # Nil =>
         p = NewDoHProxy("127.0.0.1", "53", upstreamURLs,
                         p.protocols, flags.logFlag)
    /\ \A h1 \in Handlers : \A h2 \in Handlers :
         (h1.pc = "returned" /\ h2.pc = "returned"
          /\ h1.r = h2.r /\ h1.results = h2.results)
         => (h1.w = h2.w /\ h1.log = h2.log /\ h1.calls = h2.calls)

C17_Frame == [](C17_OwnInputsOnly) /\ [][C17_ConfigUnchanged]_vars

C17_Witness ==
    /\ Len(handlers) = 2
    /\ handlers[1].net # handlers[2].net
    /\ handlers[1].pc = "returned" /\ handlers[2].pc = "returned"
    /\ Len(handlers[1].results) = 2
    /\ handlers[1].r = handlers[2].r
    /\ handlers[1].results = handlers[2].results
    /\ handlers[1].w = handlers[2].w
    /\ handlers[1].w # <<>>

\* C18: at most one message is ever written to a request's response writer.
C18_AtMostOneWrite ==
    \A h \in Handlers :
        /\ Len(h.w) <= 1
        /\ h.pc # "returned" => h.w = <<>>

C18_Witness ==
    \E h \in Handlers :
        /\ h.pc = "returned"
        /\ Len(h.results) >= 1
        /\ Is200(h.results[Len(h.results)])
        /\ Deref(h.results[Len(h.results)].response).readErr
        /\ h.w = <<FailedMsg(h.r)>>

\* C19 (as claimed): when the handler has returned, no response body it
\* obtained from an upstream is still open.
C19_BodiesClosed ==
    \A h \in Handlers : h.pc = "returned" => h.open = {}

\* C20: after the loop currentUpstream is non-empty exactly when response is
\* a non-nil response accepted with no error and status 200; the branch for
\* response == nil is never taken, and a request whose upstreams all failed
\* returns without a write to its client.
C20_CurrentUpstreamIffAccepted ==
    \A h \in Handlers :
        /\ h.pc = "afterloop" =>
             /\ h.currentUpstream # "" <=>
                  (h.response # Nil /\ h.err = "nil"
                   /\ Deref(h.response).StatusCode = 200)
             /\ ~(h.currentUpstream # "" /\ h.response = Nil)
        /\ \A i \in DOMAIN h.log : h.log[i].fmt # "All upstream DoH servers failed"
        /\ (h.pc = "returned" /\ AllFailed(h)) =>
             (h.w = <<>> /\ h.currentUpstream = "")

C20_Witness ==
    \E h \in Handlers :
        /\ h.pc = "returned"
        /\ AllFailed(h)
        /\ h.response # Nil
        /\ h.currentUpstream = ""
        /\ h.w = <<>>
====
